---- MODULE Spec2Model ----
(***************************************************************************)
(* Cumulative-deposit line chart of the invoice page.                      *)
(*                                                                         *)
(*   app/utils/chart.server.ts   generateInvoiceChart and its private      *)
(*                               calculateCumulativeDeposits               *)
(*   README.md (final route)     DepositsLineChart / useDPathAnimation     *)
(*                                                                         *)
(* Two specifications share the variables:                                 *)
(*   SpecChart  the loader builds the series and the chart for a list of   *)
(*              deposits drawn from bounded sets, and the route renders    *)
(*              them without any effect or frame callback running;         *)
(*   SpecAnim   the animation hook: renders that change the target path,   *)
(*              their passive effects, which React runs some time after    *)
(*              the render is committed, and animation frames.             *)
(***************************************************************************)
EXTENDS Integers, Sequences, FiniteSets, TLC

VARIABLES
    deposits,       \* the deposit records handed to the chart code
    pc,             \* "loaded" | "aggregated" | "charted" | "rendered" |
                    \* "manual" | "client"
    data,           \* result of calculateCumulativeDeposits(deposits)
    invoiceChart,   \* result of generateInvoiceChart(deposits, ...)
    view,           \* what the Deposits component renders below its heading
    axisText,       \* positions of the two AxisText labels drawn on the client
    submission,     \* newDepositFetcher.submission at the render
    dPath,          \* useDPathAnimation: the dPath of the last render
    previousDPath,  \* useDPathAnimation: previousDPath.current
    frame,          \* useDPathAnimation: the intermediateDPath state
    rafQueue,       \* step closures registered with requestAnimationFrame
    changes,        \* number of renders of DepositsLineChart so far
    idleLog,        \* paths of the idle frames emitted since the last change
    midFlight,      \* the last change arrived while a run was still in flight
    transitions,    \* transitioning frames emitted since the last change
    effectPending   \* the effect of the last render has not run yet

chartVars == <<deposits, pc, data, invoiceChart, view, axisText, submission>>
animVars  == <<dPath, previousDPath, frame, rafQueue, changes, idleLog, midFlight,
               transitions, effectPending>>
vars      == <<deposits, pc, data, invoiceChart, view, axisText, submission,
               dPath, previousDPath, frame, rafQueue, changes, idleLog, midFlight,
               transitions, effectPending>>

(***************************************************************************)
(* Bounds.                                                                 *)
(***************************************************************************)
MaxDeposits == 3
MaxChanges  == 3

(***************************************************************************)
(* Dates.  A calendar date is <<year, month, day>>; a Date object is a     *)
(* calendar date together with its object identity (ref).                  *)
(***************************************************************************)
Dates == { <<2023, 12, 10>>, <<2024, 1, 1>>, <<2024, 1, 10>>, <<2024, 3, 1>> }

Amounts == { 25, 50, 100 }

\* Date.prototype.getDate(): the day of the month.
getDate(d) == d[3]

\* Date.prototype.valueOf(), in days since 1970-01-01 (proleptic Gregorian).
valueOf(d) ==
    LET y   == IF d[2] <= 2 THEN d[1] - 1 ELSE d[1]
        era == y \div 400
        yoe == y - era * 400
        mp  == IF d[2] > 2 THEN d[2] - 3 ELSE d[2] + 9
        doy == (153 * mp + 2) \div 5 + d[3] - 1
        doe == yoe * 365 + yoe \div 4 - yoe \div 100 + doy
    IN  era * 146097 + doe - 719468

\* A deposit record: Pick<Deposit, "id" | "amount" | "depositDate">.
\* ref is the identity of the Date object in depositDate: the record's own
\* index, or the index of an earlier record whose Date object it shares.
IsDeposits(s) ==
    \A i \in 1..Len(s) :
        /\ s[i].ref \in 1..i
        /\ s[s[i].ref].ref = s[i].ref
        /\ s[s[i].ref].depositDate = s[i].depositDate

DepositRecords ==
    [amount : Amounts, depositDate : Dates, ref : 1..MaxDeposits]

DepositLists ==
    { s \in UNION { [1..n -> DepositRecords] : n \in 0..MaxDeposits } :
        IsDeposits(s) }

(***************************************************************************)
(* Map<Date, number>: entries in insertion order, keyed by object          *)
(* identity.                                                               *)
(***************************************************************************)
\* Map.prototype.get(key) ?? 0
MapGetOr0(m, key) ==
    IF \E i \in 1..Len(m) : m[i].key.ref = key.ref
    THEN LET i == CHOOSE j \in 1..Len(m) : m[j].key.ref = key.ref
         IN  m[i].value
    ELSE 0

\* Map.prototype.set(key, value)
MapSet(m, key, value) ==
    IF \E i \in 1..Len(m) : m[i].key.ref = key.ref
    THEN [i \in 1..Len(m) |->
            IF m[i].key.ref = key.ref THEN [key |-> m[i].key, value |-> value]
            ELSE m[i]]
    ELSE Append(m, [key |-> key, value |-> value])

\* [...map.keys()]
MapKeys(m) == [i \in 1..Len(m) |-> m[i].key]

\* Variant of the for-loop that stores the amount without adding it to the
\* amount already held for the key.
RECURSIVE amountPerDate_Overwrite(_, _)
amountPerDate_Overwrite(deps, n) ==
    IF n = 0 THEN <<>>
    ELSE LET m   == amountPerDate_Overwrite(deps, n - 1)
             key == [ref |-> deps[n].ref, date |-> deps[n].depositDate]
         IN  MapSet(m, key, deps[n].amount)

\* The for-loop of calculateCumulativeDeposits over deposits[1..n].
RECURSIVE amountPerDate(_, _)
amountPerDate(deps, n) ==
    IF n = 0 THEN <<>>
    ELSE LET m   == amountPerDate(deps, n - 1)
             key == [ref |-> deps[n].ref, date |-> deps[n].depositDate]
             currentAmount == MapGetOr0(m, key)
         IN  MapSet(m, key, currentAmount + deps[n].amount)

\* The comparator handed to sort.
compareDates(d1, d2) == getDate(d1.date) - getDate(d2.date)

\* Array.prototype.sort is stable: an element goes after every element that
\* does not compare greater than it.
RECURSIVE InsertSorted(_, _)
InsertSorted(s, e) ==
    IF s = <<>> THEN <<e>>
    ELSE IF compareDates(s[Len(s)], e) <= 0 THEN Append(s, e)
    ELSE Append(InsertSorted(SubSeq(s, 1, Len(s) - 1), e), s[Len(s)])

RECURSIVE sortDates(_, _)
sortDates(keys, n) ==
    IF n = 0 THEN <<>>
    ELSE InsertSorted(sortDates(keys, n - 1), keys[n])

\* Variant of the running sum that assigns instead of accumulating.
cumulativeAmount_NoCarry(m, dates, n) ==
    IF n = 0 THEN 0 ELSE MapGetOr0(m, dates[n])

\* dates.map(...) with the running cumulativeAmount.
RECURSIVE cumulativeAmount(_, _, _)
cumulativeAmount(m, dates, n) ==
    IF n = 0 THEN 0
    ELSE cumulativeAmount(m, dates, n - 1) + MapGetOr0(m, dates[n])

calculateCumulativeDeposits(deps) ==
    LET m     == amountPerDate(deps, Len(deps))
        keys  == MapKeys(m)
        dates == sortDates(keys, Len(keys))
    IN  [i \in 1..Len(dates) |->
            [x |-> dates[i], y |-> cumulativeAmount(m, dates, i)]]


(***************************************************************************)
(* Numbers that need not be integers (pixel positions) are exact fractions *)
(* <<numerator, denominator>> in lowest terms with a positive denominator; *)
(* NaN is <<0, 0>>.                                                        *)
(***************************************************************************)
RECURSIVE Gcd(_, _)
Gcd(a, b) == IF b = 0 THEN a ELSE Gcd(b, a % b)

Abs(a) == IF a < 0 THEN 0 - a ELSE a

NaN == <<0, 0>>

Frac(n, d) ==
    IF d = 0 THEN NaN
    ELSE LET g == Gcd(Abs(n), Abs(d))
         IN  IF d < 0 THEN <<(0 - n) \div g, (0 - d) \div g>>
             ELSE <<n \div g, d \div g>>

Num(n) == <<n, 1>>

isNaN(a) == a[2] = 0

FracAdd(a, b) ==
    IF isNaN(a) \/ isNaN(b) THEN NaN
    ELSE Frac(a[1] * b[2] + b[1] * a[2], a[2] * b[2])

FracSub(a, b) ==
    IF isNaN(a) \/ isNaN(b) THEN NaN
    ELSE Frac(a[1] * b[2] - b[1] * a[2], a[2] * b[2])

\* a <= b; false when either side is NaN, as every comparison with NaN is.
FracLe(a, b) ==
    /\ ~isNaN(a)
    /\ ~isNaN(b)
    /\ a[1] * b[2] <= b[1] * a[2]

(***************************************************************************)
(* The drawing surface.                                                    *)
(***************************************************************************)
width  == 400
height == 200
marginTop    == 10
marginRight  == 10
marginBottom == 30
marginLeft   == 10

(***************************************************************************)
(* d3-scale as the chart code uses it.                                     *)
(***************************************************************************)
\* continuous scale: normalize(a, b) followed by interpolate(r0, r1), with
\* the domain and the range reversed together when the domain descends; a
\* zero-width domain normalizes every value to 0.5.
continuous(d0, d1, r0, r1, v) ==
    IF d1 < d0
    THEN \* t = (v - d1) / (d0 - d1);  r1 * (1 - t) + r0 * t
         Frac(r1 * (d0 - v) + r0 * (v - d1), d0 - d1)
    ELSE IF d1 = d0
    THEN Frac(r0 + r1, 2)
    ELSE \* t = (v - d0) / (d1 - d0);  r0 * (1 - t) + r1 * t
         Frac(r0 * (d1 - v) + r1 * (v - d0), d1 - d0)

\* floor(log10(diff / 10)) for diff >= 10.
RECURSIVE power10(_)
power10(diff) == IF diff < 100 THEN 0 ELSE 1 + power10(diff \div 10)

RECURSIVE Pow10(_)
Pow10(k) == IF k = 0 THEN 1 ELSE 10 * Pow10(k - 1)

\* d3-array tickIncrement(start, stop) for start <= stop: the step
\* 1, 2 or 5 times a power of ten nearest to (stop - start) / 10.  A step
\* below 1 is returned by d3 as a negative inverse (minus infinity for
\* start = stop); here it is -1, since nice() leaves an integer domain as it
\* is for every such step.
tickIncrement(start, stop) ==
    LET diff == stop - start
    IN  IF diff < 10 THEN 0 - 1
        ELSE LET power == power10(diff)
                 unit  == Pow10(power + 1)
                 \* error = diff / unit, compared with sqrt(50), sqrt(10), sqrt(2)
                 factor == IF diff * diff >= 50 * unit * unit THEN 10
                           ELSE IF diff * diff >= 10 * unit * unit THEN 5
                           ELSE IF diff * diff >= 2 * unit * unit THEN 2
                           ELSE 1
             IN  factor * Pow10(power)

\* The loop of scale.nice(): at most maxIter rounds of widening the domain to
\* multiples of the step, until the step no longer changes.
RECURSIVE niceLoop(_, _, _, _, _)
niceLoop(start, stop, prestep, maxIter, d) ==
    IF maxIter = 0 THEN d
    ELSE LET stp == tickIncrement(start, stop)
         IN  IF stp = prestep THEN <<start, stop>>
             ELSE IF stp > 0
             THEN niceLoop((start \div stp) * stp,
                           ((stop + stp - 1) \div stp) * stp,
                           stp, maxIter - 1, d)
             ELSE d

\* scaleLinear().domain([y0, y1]).nice(): the domain after nice().
niceDomain(y0, y1) ==
    IF y1 < y0
    THEN LET d == niceLoop(y1, y0, 0, 10, <<y1, y0>>) IN <<d[2], d[1]>>
    ELSE niceLoop(y0, y1, 0, 10, <<y0, y1>>)

\* The domain handed to scaleTime().domain(...)
xDomain(pts) == <<valueOf(pts[1].x.date), valueOf(pts[Len(pts)].x.date)>>

\* The domain handed to scaleLinear().domain(...)
yDomain(pts) == <<pts[1].y, pts[Len(pts)].y>>

\* xScale = scaleTime().domain([firstEntry.x, lastEntry.x]).range([0, width])
xScale(pts, x) ==
    continuous(xDomain(pts)[1], xDomain(pts)[2], 0, width, valueOf(x.date))

\* yScale = scaleLinear().domain([firstEntry.y, lastEntry.y])
\*              .range([height, 0]).nice()
yScale(pts, y) ==
    LET d == niceDomain(yDomain(pts)[1], yDomain(pts)[2])
    IN  continuous(d[1], d[2], height, 0, y)

(***************************************************************************)
(* Labels.                                                                 *)
(***************************************************************************)
\* format.amount.format(y) for a whole amount: "$150.00"
formatAmount(y) == <<"$", y, ".", "00">>

MonthShort ==
    <<"Jan", "Feb", "Mar", "Apr", "May", "Jun",
      "Jul", "Aug", "Sep", "Oct", "Nov", "Dec">>

\* format.date.format(x): "Jan 10"
formatDate(x) == <<MonthShort[x.date[2]], x.date[3]>>

(***************************************************************************)
(* generateInvoiceChart.                                                   *)
(***************************************************************************)
undefined == [kind |-> "undefined"]
null == <<>>

\* Variant of the line generator with the step taken before the gap
\* (vertical segment first).
RECURSIVE lineGenerator_StepBefore(_, _)
lineGenerator_StepBefore(pts, n) ==
    IF n = 0 THEN null
    ELSE IF n = 1 THEN << <<xScale(pts, pts[1].x), yScale(pts, pts[1].y)>> >>
    ELSE lineGenerator_StepBefore(pts, n - 1)
         \o << <<xScale(pts, pts[n - 1].x), yScale(pts, pts[n].y)>>,
               <<xScale(pts, pts[n].x), yScale(pts, pts[n].y)>> >>

\* line().x(d => xScale(d.x)).y(d => yScale(d.y)).curve(curveStepAfter)(data):
\* null for no points, else the vertices of the path: move to the first
\* point, then for each later point a line to (its x, the previous y) and a
\* line to the point itself.
RECURSIVE lineGenerator(_, _)
lineGenerator(pts, n) ==
    IF n = 0 THEN null
    ELSE IF n = 1 THEN << <<xScale(pts, pts[1].x), yScale(pts, pts[1].y)>> >>
    ELSE lineGenerator(pts, n - 1)
         \o << <<xScale(pts, pts[n].x), yScale(pts, pts[n - 1].y)>>,
               <<xScale(pts, pts[n].x), yScale(pts, pts[n].y)>> >>

\* Variant of the y axis whose second label repeats the first entry.
yAxis_FirstTwice(pts) ==
    LET firstEntry == pts[1]
    IN  << [x |-> xScale(pts, firstEntry.x),
            y |-> FracSub(yScale(pts, firstEntry.y), Frac(marginTop, 2)),
            label |-> formatAmount(firstEntry.y)],
           [x |-> xScale(pts, firstEntry.x),
            y |-> FracSub(yScale(pts, firstEntry.y), Frac(marginTop, 2)),
            label |-> formatAmount(firstEntry.y)] >>

yAxis(pts) ==
    LET firstEntry == pts[1]
        lastEntry  == pts[Len(pts)]
    IN  << [x |-> xScale(pts, firstEntry.x),
            y |-> FracSub(yScale(pts, firstEntry.y), Frac(marginTop, 2)),
            label |-> formatAmount(firstEntry.y)],
           [x |-> xScale(pts, lastEntry.x),
            y |-> FracSub(yScale(pts, lastEntry.y), Frac(marginTop, 2)),
            label |-> formatAmount(lastEntry.y)] >>

xAxis(pts) ==
    LET firstEntry == pts[1]
        lastEntry  == pts[Len(pts)]
    IN  << [x |-> xScale(pts, firstEntry.x),
            y |-> FracAdd(Num(height), Frac(marginBottom * 2, 3)),
            label |-> formatDate(firstEntry.x)],
           [x |-> xScale(pts, lastEntry.x),
            y |-> FracAdd(Num(height), Frac(marginBottom * 2, 3)),
            label |-> formatDate(lastEntry.x)] >>

points(pts) ==
    [i \in 1..Len(pts) |->
        [x |-> xScale(pts, pts[i].x),
         y |-> yScale(pts, pts[i].y),
         label |-> <<formatDate(pts[i].x), " - ", formatAmount(pts[i].y)>>]]

\* generateInvoiceChart past its guard.  Reading firstEntry.y of an empty
\* series throws a TypeError; a null path fails the invariant.
buildInvoiceChart(deps) ==
    LET pts == calculateCumulativeDeposits(deps)
    IN  IF pts = <<>> THEN [kind |-> "throws", error |-> "TypeError"]
        ELSE LET path == lineGenerator(pts, Len(pts))
             IN  IF path = null
                 THEN [kind |-> "throws", error |-> "Invariant failed"]
                 ELSE [kind   |-> "chart",
                       dPath  |-> path,
                       yAxis  |-> yAxis(pts),
                       xAxis  |-> xAxis(pts),
                       points |-> points(pts)]

\* Variant without the guard on the number of deposits.
generateInvoiceChart_NoGuard(deps) == buildInvoiceChart(deps)

\* Variant of the guard that asks for three deposits.
generateInvoiceChart_MinThree(deps) ==
    IF Len(deps) < 3 THEN undefined ELSE buildInvoiceChart(deps)

generateInvoiceChart(deps) ==
    IF Len(deps) < 2 THEN undefined ELSE buildInvoiceChart(deps)

(***************************************************************************)
(* The chart code that runs in the route component.                        *)
(***************************************************************************)
\* Date.prototype.toLocaleDateString() in the loader: "1/10/2024"
toLocaleDateString(d) == <<d[2], "/", d[3], "/", d[1]>>

\* new Date(depositDateFormatted)
newDate(str) == <<str[5], str[1], str[3]>>

\* LoaderData["deposits"]: id, amount and depositDateFormatted.
loaderDeposits(deps) ==
    [i \in 1..Len(deps) |->
        [amount |-> deps[i].amount,
         depositDateFormatted |-> toLocaleDateString(deps[i].depositDate)]]

\* calculateCumulativeDeposits of the route: as the server's, over a new
\* Date object for every record.
calculateCumulativeDepositsClient(lds) ==
    calculateCumulativeDeposits(
        [i \in 1..Len(lds) |->
            [amount |-> lds[i].amount,
             depositDate |-> newDate(lds[i].depositDateFormatted),
             ref |-> i]])

\* yScale of the hand-written variant, applied to firstEntry.y or
\* lastEntry.y.  With domain = 0 the quotient range / domain is Infinity and
\* its product with y - firstEntry.y = 0 is NaN.
manualYScale(pts, y) ==
    LET domain == pts[Len(pts)].y - pts[1].y
        range  == height - marginBottom - marginTop
    IN  IF domain = 0 THEN NaN
        ELSE FracSub(Num(height),
                     FracAdd(Frac(range * (y - pts[1].y), domain),
                             Num(marginBottom)))

\* xScale of the hand-written variant, applied to firstEntry.x or
\* lastEntry.x.
manualXScale(pts, x) ==
    LET domain == valueOf(pts[Len(pts)].x.date) - valueOf(pts[1].x.date)
        range  == width - marginRight - marginLeft
    IN  IF domain = 0 THEN NaN
        ELSE FracAdd(Frac(range * (valueOf(x.date) - valueOf(pts[1].x.date)),
                          domain),
                     Num(marginLeft))

(***************************************************************************)
(* The Deposits component of the three route variants.                     *)
(***************************************************************************)
\* newDepositFetcher.submission: none, or the amount and the parsed deposit
\* date of the form being submitted.  InvalidDate is a Date whose getTime()
\* is NaN, null a deposit date that was not sent as a string.
NoSubmission == [kind |-> "none"]

InvalidDate == <<0, 0, 0>>

Submissions ==
    {NoSubmission} \cup
    [kind : {"submission"}, amount : {0, 50},
     depositDate : {null, InvalidDate, <<2024, 1, 10>>, <<2024, 2, 5>>}]

\* The error message, or "null" for null.  The amounts of the model are whole
\* numbers, which pass the two-decimal-places test.
validateAmount(amount) ==
    IF amount <= 0 THEN "Must be greater than 0" ELSE "null"

validateDepositDate(date) ==
    IF date = InvalidDate THEN "Please enter a valid date" ELSE "null"

\* const deposits = [...ogDeposits], with the deposit being submitted pushed
\* when its amount and date are valid.
optimisticDeposits(ogDeposits, sub) ==
    IF /\ sub.kind = "submission"
       /\ validateAmount(sub.amount) = "null"
       /\ sub.depositDate # null
       /\ validateDepositDate(sub.depositDate) = "null"
    THEN Append(ogDeposits,
                [amount |-> sub.amount,
                 depositDateFormatted |-> toLocaleDateString(sub.depositDate)])
    ELSE ogDeposits

\* Reading a property of data[0] or data[data.length - 1] when the series
\* is empty.
TypeError == [view |-> "TypeError", axisText |-> <<>>]

\* The two AxisText labels of the hand-written variant.
manualAxisText(pts) ==
    IF Len(pts) = 0 THEN TypeError
    ELSE [view |-> "chart",
          axisText |->
              << [x |-> manualXScale(pts, pts[1].x),
                  y |-> manualYScale(pts, pts[1].y)],
                 [x |-> manualXScale(pts, pts[Len(pts)].x),
                  y |-> manualYScale(pts, pts[Len(pts)].y)] >>]

\* Deposits of the variant with hand-written scales.
DepositsManual(ogDeposits, sub) ==
    LET ds  == optimisticDeposits(ogDeposits, sub)
        pts == calculateCumulativeDepositsClient(ds)
    IN  IF Len(ds) > 0 THEN manualAxisText(pts)
        ELSE [view |-> "None yet", axisText |-> <<>>]

\* DepositsLineChart of the variant that builds the d3 scales on the client.
DepositsLineChartClient(ds) ==
    LET pts == calculateCumulativeDepositsClient(ds)
    IN  IF Len(pts) = 0 THEN TypeError
        ELSE [view |-> "chart",
              axisText |->
                  << [x |-> xScale(pts, pts[1].x),
                      y |-> yScale(pts, pts[1].y)],
                     [x |-> xScale(pts, pts[Len(pts)].x),
                      y |-> yScale(pts, pts[Len(pts)].y)] >>]

\* Variant of Deposits that renders the chart whatever the number of
\* deposits.
DepositsClient_NoGuard(ogDeposits, sub) ==
    DepositsLineChartClient(optimisticDeposits(ogDeposits, sub))

\* Deposits of the variant that builds the d3 scales on the client.
DepositsClient(ogDeposits, sub) ==
    LET ds == optimisticDeposits(ogDeposits, sub)
    IN  IF Len(ds) > 0 THEN DepositsLineChartClient(ds)
        ELSE [view |-> "None yet", axisText |-> <<>>]

\* Variant of Deposits that tests the chart alone: the text when it is
\* absent, the chart otherwise.
DepositsFinal_TextWhenAbsent(ogDeposits, chart, sub) ==
    IF chart # undefined THEN "chart" ELSE "None yet"

\* Deposits of the final route: the chart, when there is one, above the list
\* of the deposits, or the text "None yet".
DepositsFinal(ogDeposits, chart, sub) ==
    LET ds == optimisticDeposits(ogDeposits, sub)
    IN  IF Len(ds) > 0
        THEN IF chart # undefined THEN "chart" ELSE "deposit list"
        ELSE "None yet"

(***************************************************************************)
(* useDPathAnimation.                                                      *)
(***************************************************************************)
Paths == { "A", "B", "C" }

durationMs == 200

\* t and rate are kept as numerators over 60 * durationMs.
One  == 60 * durationMs
rate == 1000

\* A path that is one of the charts' dPath strings, as a frame value.
Pure(p) == <<p, p, 0>>

\* Variant of the initial state that starts in the transitioning phase.
initialFrame_Transitioning(p) ==
    [intermediateDPath |-> Pure(p), state |-> "transitioning"]

\* useState({ intermediateDPath: dPath, state: "idle" })
initialFrame(p) == [intermediateDPath |-> Pure(p), state |-> "idle"]

\* interpolatePath(a, b)(t): b itself at t = 1, an in-between path before.
pathInterpolator(a, b, t) ==
    IF t = One THEN Pure(b) ELSE <<a, b, t>>

Min(a, b) == IF a < b THEN a ELSE b

\* Variant of step() that remembers the target path as soon as the run
\* emits a frame.
step_EagerPrevious(r, st) ==
    IF r.t < One
    THEN LET t == Min(r.t + rate, One)
         IN  [st EXCEPT
                !.frame = [intermediateDPath |-> pathInterpolator(r.from, r.to, t),
                           state |-> "transitioning"],
                !.previousDPath = r.to,
                !.queue = Append(@, [r EXCEPT !.t = t]),
                !.transitions = @ + 1]
    ELSE [st EXCEPT
            !.frame = [intermediateDPath |-> Pure(r.to), state |-> "idle"],
            !.previousDPath = r.to,
            !.idleLog = Append(@, r.to)]

\* Variant of step() that goes idle one increment early (t + rate < 1).
step_StopEarly(r, st) ==
    IF r.t + rate < One
    THEN LET t == Min(r.t + rate, One)
         IN  [st EXCEPT
                !.frame = [intermediateDPath |-> pathInterpolator(r.from, r.to, t),
                           state |-> "transitioning"],
                !.queue = Append(@, [r EXCEPT !.t = t]),
                !.transitions = @ + 1]
    ELSE [st EXCEPT
            !.frame = [intermediateDPath |-> Pure(r.to), state |-> "idle"],
            !.previousDPath = r.to,
            !.idleLog = Append(@, r.to)]

\* Variant of step() that stops once t has reached 1, without the idle
\* frame.
step_NoIdleFrame(r, st) ==
    IF r.t < One
    THEN LET t == Min(r.t + rate, One)
         IN  [st EXCEPT
                !.frame = [intermediateDPath |-> pathInterpolator(r.from, r.to, t),
                           state |-> "transitioning"],
                !.queue = Append(@, [r EXCEPT !.t = t]),
                !.transitions = @ + 1]
    ELSE st

\* One call of step() of the run r = [from, to, t]; st is the hook's state
\* [frame, previousDPath, queue, idleLog, transitions].
step(r, st) ==
    IF r.t < One
    THEN LET t == Min(r.t + rate, One)
         IN  [st EXCEPT
                !.frame = [intermediateDPath |-> pathInterpolator(r.from, r.to, t),
                           state |-> "transitioning"],
                !.queue = Append(@, [r EXCEPT !.t = t]),
                !.transitions = @ + 1]
    ELSE [st EXCEPT
            !.frame = [intermediateDPath |-> Pure(r.to), state |-> "idle"],
            !.previousDPath = r.to,
            !.idleLog = Append(@, r.to)]

\* The callbacks of one animation frame, in the order they were registered.
RECURSIVE runCallbacks(_, _, _)
runCallbacks(cbs, n, st) ==
    IF n = 0 THEN st
    ELSE step(cbs[n], runCallbacks(cbs, n - 1, st))

(***************************************************************************)
(* Initial states.                                                         *)
(***************************************************************************)
AnimInit(p) ==
    /\ dPath = p
    /\ previousDPath = p
    /\ frame = initialFrame(p)
    /\ rafQueue = <<>>
    /\ changes = 0
    /\ idleLog = <<>>
    /\ midFlight = FALSE
    /\ transitions = 0
    /\ effectPending = FALSE

ChartInit(deps) ==
    /\ deposits = deps
    /\ pc = "loaded"
    /\ data = <<>>
    /\ invoiceChart = undefined
    /\ view = "unrendered"
    /\ axisText = <<>>
    /\ submission = NoSubmission

InitChart == (\E deps \in DepositLists : ChartInit(deps)) /\ AnimInit("A")

InitAnim == ChartInit(<<>>) /\ (\E p \in Paths : AnimInit(p))

(***************************************************************************)
(* Actions of the chart builder.                                           *)
(***************************************************************************)
\* The series of the deposits.
Aggregate ==
    /\ pc = "loaded"
    /\ data' = calculateCumulativeDeposits(deposits)
    /\ pc' = "aggregated"
    /\ UNCHANGED <<deposits, invoiceChart, view, axisText, submission>>
    /\ UNCHANGED animVars

\* loader: invoiceChart: generateInvoiceChart(invoiceDetails.invoice.deposits, ...)
Loader ==
    /\ pc = "aggregated"
    /\ invoiceChart' = generateInvoiceChart(deposits)
    /\ pc' = "charted"
    /\ UNCHANGED <<deposits, data, view, axisText, submission>>
    /\ UNCHANGED animVars

\* The final route rendered from the loader data, with no effect run:
\* Deposits, and DepositsLineChart with useDPathAnimation when there is a
\* chart.
ServerRender ==
    /\ pc = "charted"
    /\ invoiceChart.kind # "throws"
    /\ pc' = "rendered"
    /\ \E sub \in Submissions :
          /\ submission' = sub
          /\ view' = DepositsFinal(loaderDeposits(deposits), invoiceChart, sub)
    /\ IF view' = "chart"
       THEN /\ dPath' = invoiceChart.dPath
            /\ previousDPath' = invoiceChart.dPath
            /\ frame' = initialFrame(invoiceChart.dPath)
       ELSE UNCHANGED <<dPath, previousDPath, frame>>
    /\ UNCHANGED <<deposits, data, invoiceChart, axisText>>
    /\ UNCHANGED <<rafQueue, changes, idleLog, midFlight, transitions,
                   effectPending>>

\* The route variant with hand-written scales: Deposits draws the two axis
\* labels when there are deposits.
ManualRender ==
    /\ pc = "aggregated"
    /\ pc' = "manual"
    /\ \E sub \in Submissions :
          LET r == DepositsManual(loaderDeposits(deposits), sub)
          IN  /\ submission' = sub
              /\ view' = r.view
              /\ axisText' = r.axisText
    /\ UNCHANGED <<deposits, data, invoiceChart>>
    /\ UNCHANGED animVars

\* The route variant that builds the d3 scales in DepositsLineChart, which
\* Deposits renders when there are deposits.
ClientRender ==
    /\ pc = "aggregated"
    /\ pc' = "client"
    /\ \E sub \in Submissions :
          LET r == DepositsClient(loaderDeposits(deposits), sub)
          IN  /\ submission' = sub
              /\ view' = r.view
              /\ axisText' = r.axisText
    /\ UNCHANGED <<deposits, data, invoiceChart>>
    /\ UNCHANGED animVars

(***************************************************************************)
(* Actions of the animation hook.                                          *)
(***************************************************************************)
\* A render of DepositsLineChart with dPath p is committed.  The hook
\* returns the state it holds; its effect is scheduled when p is not the
\* dPath of the last render (its dependencies changed), and runs later.
\* React runs the effect of a render before it renders again.
Render(p) ==
    /\ changes < MaxChanges
    /\ ~effectPending
    /\ dPath' = p
    /\ changes' = changes + 1
    /\ IF p = dPath
       THEN UNCHANGED <<idleLog, midFlight, transitions, effectPending>>
       ELSE /\ effectPending' = TRUE
            /\ idleLog' = <<>>
            /\ transitions' = 0
            /\ midFlight' = (rafQueue # <<>>)
    /\ UNCHANGED <<previousDPath, frame, rafQueue>>
    /\ UNCHANGED chartVars

\* The effect of the last render runs: it returns at once when dPath is
\* previousDPath.current, and otherwise starts a run with a first call of
\* step().
Effect ==
    /\ effectPending
    /\ effectPending' = FALSE
    /\ IF dPath = previousDPath
       THEN UNCHANGED <<previousDPath, frame, rafQueue, idleLog, transitions>>
       ELSE LET st == step([from |-> previousDPath, to |-> dPath, t |-> 0],
                           [frame |-> frame, previousDPath |-> previousDPath,
                            queue |-> rafQueue, idleLog |-> idleLog,
                            transitions |-> transitions])
            IN  /\ frame' = st.frame
                /\ previousDPath' = st.previousDPath
                /\ rafQueue' = st.queue
                /\ idleLog' = st.idleLog
                /\ transitions' = st.transitions
    /\ UNCHANGED <<dPath, changes, midFlight>>
    /\ UNCHANGED chartVars

\* The browser runs the animation frame callbacks registered so far.
AnimationFrame ==
    /\ rafQueue # <<>>
    /\ LET st == runCallbacks(rafQueue, Len(rafQueue),
                              [frame |-> frame, previousDPath |-> previousDPath,
                               queue |-> <<>>, idleLog |-> idleLog,
                               transitions |-> transitions])
       IN  /\ frame' = st.frame
           /\ previousDPath' = st.previousDPath
           /\ rafQueue' = st.queue
           /\ idleLog' = st.idleLog
           /\ transitions' = st.transitions
    /\ UNCHANGED <<dPath, changes, midFlight, effectPending>>
    /\ UNCHANGED chartVars

NextChart == Aggregate \/ Loader \/ ServerRender \/ ManualRender \/ ClientRender

NextAnim == (\E p \in Paths : Render(p)) \/ Effect \/ AnimationFrame

SpecChart == InitChart /\ [][NextChart]_vars

SpecAnim == InitAnim /\ [][NextAnim]_vars

\* The browser keeps delivering animation frames while callbacks are
\* registered, and React runs every effect it has scheduled.
SpecAnimFair == SpecAnim /\ WF_vars(AnimationFrame) /\ WF_vars(Effect)

(***************************************************************************)
(* Vocabulary of the properties.                                           *)
(***************************************************************************)
RECURSIVE SumAmounts(_, _)
SumAmounts(deps, n) ==
    IF n = 0 THEN 0 ELSE SumAmounts(deps, n - 1) + deps[n].amount

\* The sum of the amounts of the deposits dated d.
RECURSIVE SumDated(_, _, _)
SumDated(deps, n, d) ==
    IF n = 0 THEN 0
    ELSE SumDated(deps, n - 1, d)
         + (IF deps[n].depositDate = d THEN deps[n].amount ELSE 0)

DistinctDates(deps) == { deps[i].depositDate : i \in 1..Len(deps) }

\* A series as the sequence of its (calendar date, cumulative amount) pairs.
Series(pts) == [i \in 1..Len(pts) |-> <<pts[i].x.date, pts[i].y>>]

Orderings(n) ==
    { f \in [1..n -> 1..n] : \A i, j \in 1..n : f[i] = f[j] => i = j }

Permuted(deps, f) == [i \in 1..Len(deps) |-> deps[f[i]]]

Aggregated == pc # "loaded"

(***************************************************************************)
(* Properties of calculateCumulativeDeposits (SpecChart).                  *)
(***************************************************************************)
\* C1: the series has exactly one point per distinct calendar date of the
\* deposits, deposits of one date being summed into one point.
C1_OnePointPerDistinctDate ==
    Aggregated => Len(data) = Cardinality(DistinctDates(deposits))

\* C2: adjacent points of the series are in strictly ascending chronological
\* order.
C2_AscendingByDate ==
    Aggregated =>
        \A i \in 1..(Len(data) - 1) :
            valueOf(data[i].x.date) < valueOf(data[i + 1].x.date)

\* C3: every permutation of the deposit list yields the same sequence of
\* (date, cumulative amount) points.
C3_OrderIndependent ==
    Aggregated =>
        \A f \in Orderings(Len(deposits)) :
            Series(calculateCumulativeDeposits(Permuted(deposits, f)))
                = Series(data)

\* C4: the first y is the sum of the deposits dated as the first point, and
\* each later y exceeds its predecessor by the sum of the deposits dated as
\* that later point.
C4_IncrementIsDateTotal ==
    Aggregated =>
        \A i \in 1..Len(data) :
            data[i].y - (IF i = 1 THEN 0 ELSE data[i - 1].y)
                = SumDated(deposits, Len(deposits), data[i].x.date)

\* C5: for a non-empty deposit list the last point's y is the sum of all
\* deposit amounts.
C5_LastIsTotal ==
    (Aggregated /\ deposits # <<>>) =>
        /\ data # <<>>
        /\ data[Len(data)].y = SumAmounts(deposits, Len(deposits))

C5_Witness ==
    /\ Aggregated
    /\ Len(deposits) = 3
    /\ Len(data) = 2
    /\ deposits[2].ref = 1
    /\ data[1].y = 150
    /\ data[2].y = 175

\* C6: when every amount is positive, y never decreases along the series.
C6_NonDecreasing ==
    (Aggregated /\ \A i \in 1..Len(deposits) : deposits[i].amount > 0) =>
        \A i \in 1..(Len(data) - 1) : data[i].y <= data[i + 1].y

C6_Witness ==
    /\ Aggregated
    /\ \A i \in 1..Len(deposits) : deposits[i].amount > 0
    /\ Len(data) = 3
    /\ data[1].y = 100
    /\ data[2].y = 125
    /\ data[3].y = 175

(***************************************************************************)
(* Properties of generateInvoiceChart (SpecChart).                         *)
(***************************************************************************)
\* C7: with 0 or 1 distinct calendar dates among the deposits the result is
\* undefined.
C7_AbsentBelowTwoDates ==
    (pc = "charted" /\ Cardinality(DistinctDates(deposits)) <= 1) =>
        invoiceChart = undefined

\* C8: with at least two distinct calendar dates the result is a chart (not
\* undefined, nothing thrown) with at least two points.
C8_ChartFromTwoDates ==
    (pc = "charted" /\ Cardinality(DistinctDates(deposits)) >= 2) =>
        /\ invoiceChart.kind = "chart"
        /\ Len(invoiceChart.points) >= 2

C8_Witness ==
    /\ pc = "charted"
    /\ Len(deposits) = 2
    /\ Cardinality(DistinctDates(deposits)) = 2
    /\ invoiceChart.kind = "chart"
    /\ Len(invoiceChart.points) = 2

(***************************************************************************)
(* Properties of useDPathAnimation (SpecAnim).                             *)
(***************************************************************************)
\* No frame callback is registered and no effect is waiting to run.
Quiescent == rafQueue = <<>> /\ ~effectPending

\* C9: once no frame callback remains scheduled, the displayed frame is idle
\* and shows the most recently submitted target path.
C9_QuiescentShowsNewestTarget ==
    Quiescent => frame = [intermediateDPath |-> Pure(dPath), state |-> "idle"]

\* C10: after a target change that arrived while a run was in flight, no idle
\* frame carries a path other than the newest target, and by the time the
\* animator is quiescent exactly one idle frame has been emitted.
C10_OneIdleFrameForNewest ==
    midFlight =>
        /\ \A i \in 1..Len(idleLog) : idleLog[i] = dPath
        /\ Quiescent => Len(idleLog) = 1

\* C11: at most one interpolation run is in flight: a run that was replaced
\* by a newer one has no frame callback registered any more.
C11_AtMostOneRunInFlight == Len(rafQueue) <= 1

RunConverged(n) ==
    /\ Quiescent
    /\ frame = [intermediateDPath |-> Pure(n), state |-> "idle"]
    /\ previousDPath = n

\* C12: a single run towards N, with frames being delivered and no further
\* change of the target, stops with the idle frame of path exactly N and
\* with previousDPath = N.
C12_SingleRunConverges ==
    \A n \in Paths :
        (Len(rafQueue) = 1 /\ rafQueue[1].to = n /\ dPath = n)
            ~> (RunConverged(n) \/ dPath # n)

C12_Witness ==
    /\ changes = 1
    /\ idleLog = <<dPath>>
    /\ RunConverged(dPath)

(***************************************************************************)
(* Properties of the rendered route (SpecChart).                           *)
(***************************************************************************)
\* C13: rendered with no effect and no frame callback run, the chart shows
\* exactly the chart's path in phase idle and nothing is scheduled.
C13_NoScriptShowsPathIdle ==
    /\ rafQueue = <<>>
    /\ frame.state = "idle"
    /\ (pc = "rendered" /\ view = "chart") =>
          frame = [intermediateDPath |-> Pure(invoiceChart.dPath),
                   state |-> "idle"]

C13_Witness ==
    /\ pc = "rendered"
    /\ view = "chart"
    /\ Len(invoiceChart.points) = 3
    /\ frame.intermediateDPath = Pure(invoiceChart.dPath)
    /\ frame.state = "idle"

InRange(a, lo, hi) == FracLe(Num(lo), a) /\ FracLe(a, Num(hi))

\* C14: every point of the series is mapped into the pixel ranges: x into
\* [0, width] and y into [0, height].
C14_PointsWithinPixelRange ==
    /\ (pc = "charted" /\ invoiceChart.kind = "chart") =>
          \A i \in 1..Len(invoiceChart.points) :
              /\ InRange(invoiceChart.points[i].x, 0, width)
              /\ InRange(invoiceChart.points[i].y, 0, height)
    /\ (pc = "client") =>
          \A i \in 1..Len(axisText) :
              /\ InRange(axisText[i].x, 0, width)
              /\ InRange(axisText[i].y, 0, height)

\* C15: every pixel value a scale returns is a number (never NaN), also when
\* the first and the last point of the series coincide.
C15_ScalesNeverNaN ==
    /\ (pc = "charted" /\ invoiceChart.kind = "chart") =>
          \A i \in 1..Len(invoiceChart.points) :
              /\ ~isNaN(invoiceChart.points[i].x)
              /\ ~isNaN(invoiceChart.points[i].y)
    /\ (pc \in {"manual", "client"}) =>
          \A i \in 1..Len(axisText) :
              /\ ~isNaN(axisText[i].x)
              /\ ~isNaN(axisText[i].y)

\* C16: the path is the step-after polyline of the scaled points: it starts
\* at the first point and reaches each later point by a horizontal segment
\* at the earlier y followed by a vertical segment.
C16_StepAfterPolyline ==
    (pc = "charted" /\ invoiceChart.kind = "chart") =>
        LET pt == invoiceChart.points
            d  == invoiceChart.dPath
        IN  /\ Len(d) = 2 * Len(pt) - 1
            /\ d[1] = <<pt[1].x, pt[1].y>>
            /\ \A k \in 1..(Len(pt) - 1) :
                  /\ d[2 * k] = <<pt[k + 1].x, pt[k].y>>
                  /\ d[2 * k + 1] = <<pt[k + 1].x, pt[k + 1].y>>
            /\ \A j \in 1..(Len(d) - 1) :
                  d[j][1] = d[j + 1][1] \/ d[j][2] = d[j + 1][2]

C16_Witness ==
    /\ pc = "charted"
    /\ invoiceChart.kind = "chart"
    /\ Len(invoiceChart.dPath) = 5
    /\ invoiceChart.points[1].x # invoiceChart.points[2].x
    /\ invoiceChart.points[2].x # invoiceChart.points[3].x
    /\ invoiceChart.points[1].y # invoiceChart.points[2].y

ChartFields == {"dPath", "yAxis", "xAxis", "points"}

\* C17: the result is either undefined or a chart with all four fields; the
\* line generator returns null only for an empty series, so nothing is thrown
\* for deposits that pass the guard.
C17_AllOrNothing ==
    /\ Aggregated =>
          ((lineGenerator(data, Len(data)) = null) <=> (data = <<>>))
    /\ (pc = "charted") =>
          \/ invoiceChart = undefined
          \/ /\ invoiceChart.kind = "chart"
             /\ ChartFields \subseteq DOMAIN invoiceChart
             /\ invoiceChart.dPath # null

C17_Witness ==
    /\ pc = "charted"
    /\ Len(deposits) = 2
    /\ invoiceChart.kind = "chart"
    /\ Len(invoiceChart.dPath) = 3

\* C18: a chart has two y-axis labels, two x-axis labels and one point per
\* cumulative point, in series order; the y-axis labels read the first
\* cumulative amount and the total of all deposits, and the axis labels sit
\* at the x of the first and of the last point.
C18_AxisLabels ==
    (pc = "charted" /\ invoiceChart.kind = "chart") =>
        LET c == invoiceChart
            n == Len(data)
        IN  /\ Len(c.yAxis) = 2
            /\ Len(c.xAxis) = 2
            /\ Len(c.points) = n
            /\ \A i \in 1..n :
                  c.points[i].label
                      = <<formatDate(data[i].x), " - ", formatAmount(data[i].y)>>
            /\ c.yAxis[1].label = formatAmount(data[1].y)
            /\ c.yAxis[2].label
                  = formatAmount(SumAmounts(deposits, Len(deposits)))
            /\ c.yAxis[1].x = c.points[1].x
            /\ c.yAxis[2].x = c.points[n].x
            /\ c.xAxis[1].x = c.points[1].x
            /\ c.xAxis[2].x = c.points[n].x

C18_Witness ==
    /\ pc = "charted"
    /\ invoiceChart.kind = "chart"
    /\ Len(invoiceChart.points) = 2
    /\ invoiceChart.yAxis[1].label = formatAmount(150)
    /\ invoiceChart.yAxis[2].label = formatAmount(175)
    /\ invoiceChart.yAxis[1].x # invoiceChart.yAxis[2].x

\* C19: the scale domains are the extremes of the series: the x domain runs
\* from the earliest to the latest date of the points and the y domain from
\* the smallest to the largest cumulative amount.
C19_DomainIsMinMax ==
    (pc = "charted" /\ invoiceChart.kind = "chart") =>
        /\ \A i \in 1..Len(data) :
              /\ xDomain(data)[1] <= valueOf(data[i].x.date)
              /\ valueOf(data[i].x.date) <= xDomain(data)[2]
        /\ \A i \in 1..Len(data) :
              /\ yDomain(data)[1] <= data[i].y
              /\ data[i].y <= yDomain(data)[2]

(***************************************************************************)
(* The phases of useDPathAnimation (SpecAnim).                             *)
(***************************************************************************)
IsRender == changes' = changes + 1

IsEffect == effectPending /\ ~effectPending'

RunStarted ==
    /\ Len(rafQueue') = Len(rafQueue) + 1
    /\ frame'.state = "transitioning"

\* C20: a render emits no frame and, when its path is the one of the last
\* render, schedules nothing; the effect of a render with a new path starts
\* no run and emits no frame when that path equals the displayed one, and
\* starts a run when it differs; the phase returns to idle only by a step of
\* a run whose t has reached 1.
C20_RunIffPathDiffers ==
    [][ /\ IsRender => (rafQueue' = rafQueue /\ frame' = frame)
        /\ (IsRender /\ dPath' = dPath) => ~effectPending'
        /\ (IsEffect /\ Pure(dPath) = frame.intermediateDPath) =>
              (rafQueue' = rafQueue /\ frame' = frame)
        /\ (IsEffect /\ Pure(dPath) # frame.intermediateDPath) =>
              RunStarted
        /\ (frame.state = "transitioning" /\ frame'.state = "idle") =>
              \E i \in 1..Len(rafQueue) :
                  /\ rafQueue[i].t = One
                  /\ frame'.intermediateDPath = Pure(rafQueue[i].to)
      ]_vars

(***************************************************************************)
(* previousDPath and the frames of one run (SpecAnim).                     *)
(***************************************************************************)
\* C21: previousDPath changes only in an animation frame in which a step
\* emits an idle frame, and is then the path of the last idle frame emitted;
\* an animation frame that only emits transitioning frames, every render
\* and every effect, whether it starts a run or not, leave it unchanged.
C21_PreviousOnlyAtIdle ==
    [][ /\ previousDPath' # previousDPath =>
              (~IsRender /\ ~IsEffect /\ Len(idleLog') > Len(idleLog))
        /\ Len(idleLog') > Len(idleLog) =>
              previousDPath' = idleLog'[Len(idleLog')]
        /\ (IsRender \/ IsEffect) => previousDPath' = previousDPath
        /\ (~IsRender /\ idleLog' = idleLog) => previousDPath' = previousDPath
      ]_vars

\* Two runs have each committed their own path by an idle frame.
C21_Witness ==
    /\ Len(idleLog) = 2
    /\ idleLog[1] # idleLog[2]
    /\ previousDPath = idleLog[2]

\* C22: a run that is not superseded advances t by the increment of
\* 1000 / (60 * durationMs) with every transitioning frame, from that
\* increment at the frame emitted when the run starts up to 1 at the twelfth,
\* then emits one idle frame and leaves no callback registered.
C22_TwelveFramesThenIdle ==
    ~midFlight =>
        /\ Len(rafQueue) <= 1
        /\ rafQueue # <<>> =>
              /\ rafQueue[1].t = transitions * rate
              /\ rafQueue[1].t <= One
              /\ transitions \in 1..12
              /\ idleLog = <<>>
              /\ frame = [intermediateDPath |->
                              pathInterpolator(rafQueue[1].from, rafQueue[1].to,
                                               rafQueue[1].t),
                          state |-> "transitioning"]
        /\ (rafQueue = <<>> /\ transitions > 0) =>
              /\ transitions = 12
              /\ idleLog = <<dPath>>
              /\ frame.state = "idle"

\* A second run, started after the first had finished, has ended.
C22_Witness ==
    /\ ~midFlight
    /\ changes = 2
    /\ Quiescent
    /\ transitions = 12
    /\ idleLog = <<dPath>>
    /\ previousDPath = dPath

(***************************************************************************)
(* The Deposits component and the ends of the series (SpecChart).          *)
(***************************************************************************)
\* The number of deposits Deposits shows: those of the loader and the one
\* being submitted, when its amount and its date are valid.
Shown ==
    Len(deposits) +
    (IF /\ submission.kind = "submission"
        /\ submission.amount > 0
        /\ submission.depositDate \notin {null, InvalidDate}
     THEN 1 ELSE 0)

\* C23 as stated: whenever the chart is absent Deposits renders the text
\* fallback, with no deposit and with one deposit alike, and it renders chart
\* visuals only when a chart is present.
C23_TextFallbackWhenAbsent ==
    pc = "rendered" =>
        /\ invoiceChart = undefined => view = "None yet"
        /\ view = "chart" => invoiceChart.kind = "chart"

\* C23, amended: Deposits renders chart visuals exactly when a chart is
\* present; when the chart is absent it renders the text "None yet" only if
\* it has no deposit to show, and otherwise the list of the deposits with
\* nothing in place of the chart.
C23_FallbackOnlyWithoutDeposits ==
    pc = "rendered" =>
        /\ view \in {"chart", "deposit list", "None yet"}
        /\ view = "chart" <=> invoiceChart.kind = "chart"
        /\ invoiceChart = undefined =>
              /\ view = "None yet" <=> Shown = 0
              /\ view = "deposit list" <=> Shown > 0

C23_Witness ==
    /\ pc = "rendered"
    /\ Len(deposits) = 1
    /\ submission = NoSubmission
    /\ invoiceChart = undefined
    /\ view = "deposit list"

\* C24: no variant reads the first or the last element of an empty series:
\* generateInvoiceChart and the two client variants never fail on a missing
\* element, axis labels are only computed from a series with a point, and
\* with no deposit to show, pending or not, nothing is read and the text is
\* rendered.
C24_EndsReadOnlyWhenNonEmpty ==
    /\ invoiceChart.kind # "throws"
    /\ view # "TypeError"
    /\ (pc = "charted" /\ Len(deposits) = 0) => invoiceChart = undefined
    /\ pc \in {"manual", "client"} =>
          /\ axisText # <<>> => Shown > 0
          /\ Shown = 0 => (view = "None yet" /\ axisText = <<>>)

\* An empty list of deposits with a valid pending deposit, drawn by the
\* client variant.
C24_Witness ==
    /\ pc = "client"
    /\ deposits = <<>>
    /\ Shown = 1
    /\ view = "chart"
    /\ Len(axisText) = 2

\* C27: for the same deposits the client variant draws a chart exactly when
\* generateInvoiceChart builds one, and then from the same series and the
\* same scale domains.
C27_ClientAgreesWithServer ==
    (pc = "client" /\ submission = NoSubmission) =>
        LET chart == generateInvoiceChart(deposits)
            pts   == calculateCumulativeDepositsClient(loaderDeposits(deposits))
        IN  /\ view = "chart" <=> chart.kind = "chart"
            /\ (view = "chart" /\ chart.kind = "chart") =>
                  /\ Series(pts) = Series(data)
                  /\ xDomain(pts) = xDomain(data)
                  /\ yDomain(pts) = yDomain(data)

(***************************************************************************)
(* Runs that overlap, and the markers of the idle phase (SpecAnim).        *)
(***************************************************************************)
\* C25: a run started by an effect while another run is in flight
\* interpolates from previousDPath, and its source is the source of every
\* run it finds in flight.
C25_SourceOfSupersedingRun ==
    [][ (IsEffect /\ RunStarted /\ rafQueue # <<>>) =>
            /\ rafQueue'[Len(rafQueue')].from = previousDPath
            /\ \A i \in 1..Len(rafQueue) :
                  rafQueue[i].from = rafQueue'[Len(rafQueue')].from
      ]_vars

\* C26: whenever the phase is idle, the phase in which the markers of the
\* chart of the last render are drawn, the displayed path is that chart's
\* dPath.
C26_IdleShowsCurrentChart ==
    frame.state = "idle" => frame.intermediateDPath = Pure(dPath)

====
